---- MODULE Spec2Model ----
(***************************************************************************)
(* Model of package model_reflect (src/model_reflect.go, lines 1-261):     *)
(* New(v) walks the reflect type graph of v and renders a canonical        *)
(* signature, collecting diagnostics.                                      *)
(*                                                                         *)
(* A type graph is a table of type descriptors (the reflect.Type API:      *)
(* Kind, Elem, Key, Len, Field(i), Implements).  The struct types A, B, C  *)
(* get their field lists in Init; every other descriptor is fixed.         *)
(* A signature is the sequence of the string pieces the code concatenates. *)
(* An error is the tuple of the values formatted into its message.         *)
(***************************************************************************)
EXTENDS Integers, Sequences, FiniteSets, TLC

\* ------------------------------------------------------------------ bounds

\* Largest number of declared fields of one struct type.
MaxFields == 2

\* ------------------------------------------------------- type descriptors

NIL == "<nil>"

Desc(k, e, ky, n) == [kind |-> k, elem |-> e, key |-> ky, len |-> n]

\* reflect.Type: kind, Elem(), Key(), Len() of every type of the graph.
\*   type P *P         a pointer type that is its own element
\*   type L []L        a slice type that is its own element
\*   type BigInt int
TypeTab ==
  [ t \in { "int", "string", "func()", "BigInt", "P", "L", "A", "B", "C", "Time",
            "*A", "**A", "*B", "*C", "*Time", "[]B", "[2][]B",
            "map[string][2][]B" } |->
      CASE t = "int"      -> Desc("int", NIL, NIL, 0)
        [] t = "string"   -> Desc("string", NIL, NIL, 0)
        [] t = "func()"   -> Desc("func", NIL, NIL, 0)
        [] t = "BigInt"   -> Desc("int", NIL, NIL, 0)
        [] t = "P"        -> Desc("ptr", "P", NIL, 0)
        [] t = "L"        -> Desc("slice", "L", NIL, 0)
        [] t = "A"        -> Desc("struct", NIL, NIL, 0)
        [] t = "B"        -> Desc("struct", NIL, NIL, 0)
        [] t = "C"        -> Desc("struct", NIL, NIL, 0)
        [] t = "Time"     -> Desc("struct", NIL, NIL, 0)
        [] t = "*A"       -> Desc("ptr", "A", NIL, 0)
        [] t = "**A"      -> Desc("ptr", "*A", NIL, 0)
        [] t = "*B"       -> Desc("ptr", "B", NIL, 0)
        [] t = "*C"       -> Desc("ptr", "C", NIL, 0)
        [] t = "*Time"    -> Desc("ptr", "Time", NIL, 0)
        [] t = "[]B"      -> Desc("slice", "B", NIL, 0)
        [] t = "[2][]B"   -> Desc("array", "[]B", NIL, 2)
        [] t = "map[string][2][]B" -> Desc("map", "[2][]B", "string", 0) ]

Types == DOMAIN TypeTab

StructTypes == { t \in Types : TypeTab[t].kind = "struct" }

PtrTypes == { t \in Types : TypeTab[t].kind = "ptr" }

Kind(t) == TypeTab[t].kind
Elem(t) == TypeTab[t].elem
Key(t) == TypeTab[t].key

\* fmt's %d of an array length.
Itoa(n) == <<"0", "1", "2", "3", "4", "5", "6", "7", "8", "9">>[n + 1]

\* The bytes of the strings the code compares or inspects (field names,
\* interface names), as sort.Strings and IsExported see them.
Bytes ==
  [ s \in { ".", "X", "Y", "Next", "Kids", "W", "A", "B", "C", "BigInt", "y", "Fn",
            "Time",
            "encoding.BinaryMarshaler", "encoding.BinaryUnmarshaler",
            "encoding.TextMarshaler", "encoding.TextUnmarshaler" } |->
      CASE s = "."      -> <<46>>
        [] s = "Time"   -> <<84, 105, 109, 101>>
        [] s = "X"      -> <<88>>
        [] s = "Y"      -> <<89>>
        [] s = "Next"   -> <<78, 101, 120, 116>>
        [] s = "Kids"   -> <<75, 105, 100, 115>>
        [] s = "W"      -> <<87>>
        [] s = "A"      -> <<65>>
        [] s = "B"      -> <<66>>
        [] s = "C"      -> <<67>>
        [] s = "BigInt" -> <<66, 105, 103, 73, 110, 116>>
        [] s = "y"      -> <<121>>
        [] s = "Fn"     -> <<70, 110>>
        [] s = "encoding.BinaryMarshaler" ->
             <<101, 110, 99, 111, 100, 105, 110, 103, 46, 66, 105, 110, 97, 114,
               121, 77, 97, 114, 115, 104, 97, 108, 101, 114>>
        [] s = "encoding.BinaryUnmarshaler" ->
             <<101, 110, 99, 111, 100, 105, 110, 103, 46, 66, 105, 110, 97, 114,
               121, 85, 110, 109, 97, 114, 115, 104, 97, 108, 101, 114>>
        [] s = "encoding.TextMarshaler" ->
             <<101, 110, 99, 111, 100, 105, 110, 103, 46, 84, 101, 120, 116, 77,
               97, 114, 115, 104, 97, 108, 101, 114>>
        [] s = "encoding.TextUnmarshaler" ->
             <<101, 110, 99, 111, 100, 105, 110, 103, 46, 84, 101, 120, 116, 85,
               110, 109, 97, 114, 115, 104, 97, 108, 101, 114>> ]

\* A reflect.StructField: Name, Type, Anonymous, and Tag.Get("reflect").
Field(n, t, a, g) == [Name |-> n, Type |-> t, Anonymous |-> a, Tag |-> g]

\* StructField.IsExported: the name starts with an upper-case letter.
IsExported(f) == Bytes[f.Name][1] \in 65..90

\* The interfaces the pointer to each type implements
\* (reflect.PtrTo(t).Implements): Time has marshal methods, nothing else has.
Implements(t) ==
  IF t = "Time"
    THEN {"encoding.TextUnmarshaler", "encoding.BinaryMarshaler"}
    ELSE {}

\* The fields a struct type of the graph may declare, in declaration order;
\* Init picks a sub-list of at most MaxFields fields with distinct names.
Candidates ==
  [ t \in StructTypes |->
      CASE t = "A" ->
             << Field("Next", "*A", FALSE, ""),
                Field("X", "int", FALSE, ""),
                Field("X", "int", FALSE, "-"),
                Field("B", "B", TRUE, ""),
                Field("C", "*C", TRUE, ""),
                Field("Kids", "map[string][2][]B", FALSE, ""),
                Field("W", "Time", FALSE, "") >>
        [] t = "B" ->
             << Field("X", "int", FALSE, ""),
                Field("X", "string", FALSE, "-"),
                Field("A", "*A", TRUE, ""),
                Field("Next", "*B", FALSE, ""),
                Field("Y", "string", FALSE, "raw") >>
        [] t = "C" ->
             << Field("X", "int", FALSE, ""),
                Field("B", "B", TRUE, ""),
                Field("BigInt", "BigInt", TRUE, ""),
                Field("Fn", "func()", FALSE, ""),
                Field("y", "int", FALSE, "") >>
        [] t = "Time" ->
             << Field("X", "int", FALSE, ""),
                Field("Time", "*Time", TRUE, "") >> ]

\* ------------------------------------------------------------------ errors

\* An error value, by what its message is formatted from.
Err(k, t, l, c, n) == [kind |-> k, type |-> t, level |-> l, count |-> c, name |-> n]

\* fmt.Errorf("%w in %s", ErrLoopDetected, t)
ErrLoopDetected(t) == Err("loop detected", t, 0, 0, "")

\* fmt.Errorf("%w %s", ErrEmptyStruct, t)
ErrEmptyStruct(t) == Err("empty struct", t, 0, 0, "")

\* fmt.Errorf("type %s (embed level %d): %w [%d]%s", t, i, ErrDuplicate, n, name)
ErrDuplicate(t, i, n, name) == Err("duplicate fields", t, i, n, name)

RECURSIVE uniqueLoop(_, _, _, _)
uniqueLoop(slice, j, keys, list) ==
  IF j > Len(slice) THEN list
  ELSE IF slice[j] \in keys
    THEN uniqueLoop(slice, j + 1, keys, list)
    ELSE uniqueLoop(slice, j + 1, keys \cup {slice[j]}, Append(list, slice[j]))

\* uniqueErrors: the first occurrence of every message, in order.
uniqueErrors(slice) == uniqueLoop(slice, 1, {}, <<>>)

\* ------------------------------------------------------------------ helpers

\* baseType: follow pointers until the kind is not Ptr.
RECURSIVE baseType(_)
baseType(t) == IF Kind(t) = "ptr" THEN baseType(Elem(t)) ELSE t

isConcrete(t) ==
  Kind(t) \notin {"ptr", "unsafe.Pointer", "interface", "func", "chan"}

\* Mutant of inTypes: the type is pushed on the path before the path is searched.
inTypesAfterPush(types, t) == \E i \in 1..Len(Append(types, t)) : Append(types, t)[i] = t

\* slices.Index(types, t) >= 0
inTypes(types, t) == \E i \in 1..Len(types) : types[i] = t

\* A string the code sorts is kept as the sequence of its pieces; its bytes
\* are those of the pieces in order.
RECURSIVE StrBytes(_)
StrBytes(str) == IF str = <<>> THEN <<>> ELSE Bytes[Head(str)] \o StrBytes(Tail(str))

\* Go's string order: bytewise lexicographic.
RECURSIVE lessBytes(_, _)
lessBytes(a, b) ==
  IF b = <<>> THEN FALSE
  ELSE IF a = <<>> THEN TRUE
  ELSE IF a[1] # b[1] THEN a[1] < b[1]
  ELSE lessBytes(Tail(a), Tail(b))

RECURSIVE insertSorted(_, _)
insertSorted(sorted, str) ==
  IF sorted = <<>> THEN <<str>>
  ELSE IF lessBytes(StrBytes(str), StrBytes(Head(sorted)))
    THEN <<str>> \o sorted
    ELSE <<Head(sorted)>> \o insertSorted(Tail(sorted), str)

RECURSIVE sortLoop(_, _, _)
sortLoop(strs, j, sorted) ==
  IF j > Len(strs) THEN sorted
  ELSE sortLoop(strs, j + 1, insertSorted(sorted, strs[j]))

\* Mutant of sortStrings: the keys are left in insertion order.
sortStringsSkipped(strs) == strs

\* sort.Strings
sortStrings(strs) == sortLoop(strs, 1, <<>>)

\* strings.Join of one-piece strings, as a sequence of pieces.
RECURSIVE stringsJoin(_, _)
stringsJoin(strs, sep) ==
  IF strs = <<>> THEN <<>>
  ELSE IF Len(strs) = 1 THEN Head(strs)
  ELSE Head(strs) \o <<sep>> \o stringsJoin(Tail(strs), sep)

DefaultInterfaces ==
  << "encoding.BinaryMarshaler", "encoding.BinaryUnmarshaler",
     "encoding.TextMarshaler", "encoding.TextUnmarshaler" >>

RECURSIVE interfacesLoop(_, _, _)
interfacesLoop(t, j, result) ==
  IF j > Len(DefaultInterfaces) THEN result
  ELSE interfacesLoop(t, j + 1,
         IF DefaultInterfaces[j] \in Implements(t)
           THEN Append(result, <<DefaultInterfaces[j]>>)
           ELSE result)

\* Mutant of checkInterfaces: no interface is ever found.
checkInterfacesNone(t) == <<>>

\* checkInterfaces: the names of the DefaultInterfaces *t implements, sorted.
checkInterfaces(t) == sortStrings(interfacesLoop(t, 1, <<>>))

\* ------------------------------------------------------------ expandField

\* for depth >= len(*result) { *result = append(*result, []StructField{}) }
growResult(result, depth) ==
  IF depth >= Len(result)
    THEN result \o [i \in 1..(depth + 1 - Len(result)) |-> <<>>]
    ELSE result

\* expandField(f, types, result): the buckets after the call, and the
\* errors returned.  F is the graph's field lists (t.Field(i)).
RECURSIVE expandField(_, _, _, _)
RECURSIVE expandLoop(_, _, _, _, _, _)
expandField(F, f, types, result) ==
  LET depth == Len(types)
      grown == growResult(result, depth)
      t == baseType(f.Type)
  IN  IF inTypes(types, t)
        THEN [result |-> grown, errs |-> <<ErrLoopDetected(t)>>]
      ELSE IF Kind(t) # "struct" \/ ~f.Anonymous
        THEN [result |-> [grown EXCEPT ![depth + 1] = Append(@, f)], errs |-> <<>>]
      ELSE expandLoop(F, F[t], 1, Append(types, t), grown, <<>>)

\* for i := 0; i < n; i++ { errs = append(errs, expandField(t.Field(i), ...)...) }
expandLoop(F, fs, i, types, result, errs) ==
  IF i > Len(fs) THEN [result |-> result, errs |-> errs]
  ELSE LET r == expandField(F, fs[i], types, result)
       IN  expandLoop(F, fs, i + 1, types, r.result, errs \o r.errs)

\* ----------------------------------------------------------- structFields

Names == DOMAIN Bytes

\* A map[string]int before any increment.
noCounts == [n \in Names |-> 0]

\* Mutant of countLoop: counts[f.Name] = 1 in place of counts[f.Name]++.
RECURSIVE countLoopAssign(_, _, _)
countLoopAssign(level, j, counts) ==
  IF j > Len(level) THEN counts
  ELSE countLoopAssign(level, j + 1, [counts EXCEPT ![level[j].Name] = 1])

\* for _, f := range level { counts[f.Name]++ }
RECURSIVE countLoop(_, _, _)
countLoop(level, j, counts) ==
  IF j > Len(level) THEN counts
  ELSE countLoop(level, j + 1, [counts EXCEPT ![level[j].Name] = @ + 1])

\* if f.Tag.Get("reflect") == "-" { continue }
isIgnored(f) == f.Tag = "-"

\* if counts[f.Name] == 1 { result = append(result, f) }
isKept(counts, f) == counts[f.Name] = 1

\* Mutant of isDuplicate: localIgnore is not consulted.
isDuplicateEveryTime(localCounts, localIgnore, f) == localCounts[f.Name] > 1

\* if !localIgnore[f.Name] && localCounts[f.Name] > 1 { ... }
isDuplicate(localCounts, localIgnore, f) ==
  f.Name \notin localIgnore /\ localCounts[f.Name] > 1

\* The second loop over one level: acc is (result, errs) so far.
RECURSIVE keepLoop(_, _, _, _, _, _, _, _)
keepLoop(t, i, level, j, counts, localCounts, localIgnore, acc) ==
  IF j > Len(level) THEN acc
  ELSE
    LET f == level[j] IN
    IF isIgnored(f)
      THEN keepLoop(t, i, level, j + 1, counts, localCounts, localIgnore, acc)
      ELSE
        LET dup == isDuplicate(localCounts, localIgnore, f) IN
        keepLoop(t, i, level, j + 1, counts, localCounts,
                 IF dup THEN localIgnore \cup {f.Name} ELSE localIgnore,
                 [ fields |-> IF isKept(counts, f)
                                THEN Append(acc.fields, f) ELSE acc.fields,
                   errs   |-> IF dup
                                THEN Append(acc.errs,
                                       ErrDuplicate(t, i, localCounts[f.Name], f.Name))
                                ELSE acc.errs ])

\* for i, level := range expand { ... }; i is the 0-based embed level.
RECURSIVE levelLoop(_, _, _, _, _)
levelLoop(t, expand, i, counts, acc) ==
  IF i >= Len(expand) THEN acc
  ELSE
    LET level == expand[i + 1]
        counted == countLoop(level, 1, counts)
        localCounts == countLoop(level, 1, noCounts)
    IN  levelLoop(t, expand, i + 1, counted,
                  keepLoop(t, i, level, 1, counted, localCounts, {}, acc))

\* The buckets structFields gets from expandField, with its errors.
expandAll(F, t) == expandLoop(F, F[t], 1, <<>>, <<>>, <<>>)

\* structFields(t): the surviving fields and the errors.
structFields(F, t) ==
  IF Kind(t) # "struct" THEN [fields |-> <<>>, errs |-> <<>>]
  ELSE LET ex == expandAll(F, t)
       IN  levelLoop(t, ex.result, 0, noCounts, [fields |-> <<>>, errs |-> ex.errs])

\* ----------------------------------------------------------- typeToString

\* name := f.Name; if f.Anonymous { name = "." + name }
keyOf(f) == IF f.Anonymous THEN <<".", f.Name>> ELSE <<f.Name>>

\* The first loop over fields: keys in insertion order and fieldMap, where a
\* later field with the same key replaces the earlier one.
RECURSIVE fieldMapLoop(_, _, _)
fieldMapLoop(fields, j, acc) ==
  IF j > Len(fields) THEN acc
  ELSE
    LET f == fields[j] IN
    IF ~IsExported(f) \/ ~isConcrete(baseType(f.Type))
      THEN fieldMapLoop(fields, j + 1, acc)
      ELSE fieldMapLoop(fields, j + 1,
             [ keys |-> IF keyOf(f) \in DOMAIN acc.map
                          THEN acc.keys ELSE Append(acc.keys, keyOf(f)),
               map  |-> [k \in DOMAIN acc.map \cup {keyOf(f)} |->
                           IF k = keyOf(f) THEN f ELSE acc.map[k]] ])

noFields == [k \in {} |-> Field("", NIL, FALSE, "")]

\* keys after sort.Strings, and fieldMap.
sortedFields(fields) ==
  LET fm == fieldMapLoop(fields, 1, [keys |-> <<>>, map |-> noFields])
  IN  [keys |-> sortStrings(fm.keys), map |-> fm.map]

\* Mutant of loopToken: the token of a non-concrete type.
loopTokenUnknown == "?"

\* The token for a type already on the path.
loopToken == "..."

RECURSIVE typeToString(_, _, _)
RECURSIVE renderLoop(_, _, _, _, _)

\* for i, name := range keys { ... }: acc is (r, errs) so far.
renderLoop(F, sf, i, types, acc) ==
  IF i > Len(sf.keys) THEN acc
  ELSE
    LET f == sf.map[sf.keys[i]]
        label == IF ~f.Anonymous THEN <<f.Name, ":">> ELSE <<>>
        sub == IF f.Tag # ""
                 THEN [s |-> <<f.Tag>>, errs |-> <<>>]
                 ELSE typeToString(F, f.Type, types)
        sep == IF i < Len(sf.keys) THEN <<", ">> ELSE <<>>
    IN  renderLoop(F, sf, i + 1, types,
                   [ s |-> acc.s \o label \o sub.s \o sep,
                     errs |-> acc.errs \o sub.errs ])

\* The struct case of typeToString, after types = append(types, t).
structToString(F, t, types) ==
  LET interfaces == checkInterfaces(t) IN
  IF Len(interfaces) > 0
    THEN [s |-> <<"(">> \o stringsJoin(interfaces, ",") \o <<")">>, errs |-> <<>>]
    ELSE
      LET fe == structFields(F, t)
          sf == sortedFields(fe.fields)
          empty == IF Len(sf.keys) = 0 THEN <<ErrEmptyStruct(t)>> ELSE <<>>
          r == renderLoop(F, sf, 1, types, [s |-> <<"{ ">>, errs |-> fe.errs \o empty])
      IN  [s |-> r.s \o <<" }">>, errs |-> r.errs]

\* typeToString(t, types, errs): the string returned and the errors appended
\* to *errs, in order.
typeToString(F, t0, types) ==
  IF t0 = NIL THEN [s |-> <<"?">>, errs |-> <<>>]
  ELSE
    LET t == baseType(t0) IN
    IF ~isConcrete(t) THEN [s |-> <<"?">>, errs |-> <<>>]
    ELSE IF inTypes(types, t)
      THEN [s |-> <<loopToken>>, errs |-> <<ErrLoopDetected(t)>>]
    ELSE
      LET path == Append(types, t) IN
      CASE Kind(t) = "slice" ->
             LET e == typeToString(F, Elem(t), path)
             IN  [s |-> <<"[]">> \o e.s, errs |-> e.errs]
        [] Kind(t) = "array" ->
             LET e == typeToString(F, Elem(t), path)
             IN  [s |-> <<"[", Itoa(TypeTab[t].len), "]">> \o e.s, errs |-> e.errs]
        [] Kind(t) = "map" ->
             LET k == typeToString(F, Key(t), path)
                 e == typeToString(F, Elem(t), path)
             IN  [s |-> <<"map[">> \o k.s \o <<"]">> \o e.s, errs |-> k.errs \o e.errs]
        [] Kind(t) = "struct" -> structToString(F, t, path)
        [] OTHER -> [s |-> <<Kind(t)>>, errs |-> <<>>]

\* New(v): m.string, m.Errs, and whether err is non-nil.
New(F, v) ==
  LET r == typeToString(F, v, <<>>)
      errs == uniqueErrors(r.errs)
  IN  [string |-> r.s, Errs |-> errs, err |-> Len(errs) > 0]

\* ------------------------------------------------------------------- state

VARIABLES
  fields,   \* the field list of every struct type of the graph (t.Field(i))
  root,     \* reflect.TypeOf(v) of the value passed to New; NIL for New(nil)
  pc,       \* "idle" before New is called, "running" inside it, "done" after
  stack,    \* the call stack of typeToString / expandField inside New
  result    \* what New returned

vars == <<fields, root, pc, stack, result>>

\* The sub-list of cands at the indices in I.
Pick(cands, I) ==
  LET ix == SelectSeq([i \in 1..Len(cands) |-> i], LAMBDA i : i \in I)
  IN  [j \in 1..Len(ix) |-> cands[ix[j]]]

\* Go rejects a struct type that declares one field name twice.
DistinctNames(fs) ==
  \A i, j \in 1..Len(fs) : fs[i].Name = fs[j].Name => i = j

FieldLists(t) ==
  { fs \in { Pick(Candidates[t], I) : I \in SUBSET (1..Len(Candidates[t])) } :
      Len(fs) <= MaxFields /\ DistinctNames(fs) }

\* The types New is called with.  For "A" the struct types A, B and C take
\* every field list; for the others they are empty structs.
Roots == {NIL, "func()", "P", "L", "*Time", "**A", "A"}

NoResult == [string |-> <<>>, Errs |-> <<>>, err |-> FALSE]

\* The field lists of a graph whose structs A, B, C declare a, b, c.
Graph(a, b, c) ==
  [ t \in StructTypes |->
      CASE t = "A" -> a
        [] t = "B" -> b
        [] t = "C" -> c
        [] OTHER -> Candidates[t] ]

\* The struct types the type of a field leads to through pointers, slices,
\* arrays and maps.
RECURSIVE structsOf(_)
structsOf(t) ==
  CASE Kind(t) = "struct" -> {t}
    [] Kind(t) \in {"ptr", "slice", "array"} -> structsOf(Elem(t))
    [] Kind(t) = "map" -> structsOf(Key(t)) \cup structsOf(Elem(t))
    [] OTHER -> {}

refers(fs, t) == \E i \in 1..Len(fs) : t \in structsOf(fs[i].Type)

\* Graphs that differ only in a struct type New("A") never comes to are the
\* same input: such a type is left without fields.
Graphs ==
  { g \in { Graph(a, b, c) : a \in FieldLists("A"), b \in FieldLists("B"),
                              c \in FieldLists("C") } :
      /\ ~refers(g["A"], "C") => g["C"] = <<>>
      /\ ~(refers(g["A"], "B") \/ (refers(g["A"], "C") /\ refers(g["C"], "B")))
           => g["B"] = <<>> }

Init ==
  /\ root \in Roots
  /\ fields \in IF root = "A" THEN Graphs ELSE {Graph(<<>>, <<>>, <<>>)}
  /\ pc = "idle"
  /\ stack = <<>>
  /\ result = NoResult

\* A call of typeToString(t, types, errs) or of expandField(f, types, result)
\* that has just been entered: t is the type baseType starts from, todo the
\* recursive calls its body has still to make (known once baseType returned).
Frame(fn, t, anon, types) ==
  [fn |-> fn, t |-> t, anon |-> anon, types |-> types,
   at |-> "baseType", todo |-> <<>>, hops |-> 0]

\* The recursive calls expandField makes once t = baseType(f.Type) is known.
expandCalls(F, t, anon, types) ==
  IF inTypes(types, t) \/ Kind(t) # "struct" \/ ~anon THEN <<>>
  ELSE [i \in 1..Len(F[t]) |->
          Frame("expandField", F[t][i].Type, F[t][i].Anonymous, Append(types, t))]

\* The calls the struct case makes: structFields' expandField(t.Field(i), nil,
\* &expand) for every field, then typeToString for every key without a tag.
structCalls(F, t, path) ==
  IF Len(checkInterfaces(t)) > 0 THEN <<>>
  ELSE
    LET sf == sortedFields(structFields(F, t).fields)
        untagged == SelectSeq(sf.keys, LAMBDA k : sf.map[k].Tag = "")
    IN  [i \in 1..Len(F[t]) |->
           Frame("expandField", F[t][i].Type, F[t][i].Anonymous, <<>>)]
        \o [i \in 1..Len(untagged) |->
              Frame("typeToString", sf.map[untagged[i]].Type, FALSE, path)]

\* The recursive calls typeToString makes once t = baseType(t) is known.
typeCalls(F, t, types) ==
  IF t = NIL \/ ~isConcrete(t) \/ inTypes(types, t) THEN <<>>
  ELSE
    LET path == Append(types, t) IN
    CASE Kind(t) \in {"slice", "array"} ->
           << Frame("typeToString", Elem(t), FALSE, path) >>
      [] Kind(t) = "map" ->
           << Frame("typeToString", Key(t), FALSE, path),
              Frame("typeToString", Elem(t), FALSE, path) >>
      [] Kind(t) = "struct" -> structCalls(F, t, path)
      [] OTHER -> <<>>

calls(F, fr) ==
  IF fr.fn = "expandField"
    THEN expandCalls(F, fr.t, fr.anon, fr.types)
    ELSE typeCalls(F, fr.t, fr.types)

top == stack[Len(stack)]

\* t != nil && t.Kind() == reflect.Ptr
isPtr(t) == IF t = NIL THEN FALSE ELSE Kind(t) = "ptr"

setTop(fr) == [stack EXCEPT ![Len(stack)] = fr]

\* New(v) is called: typeToString(reflect.TypeOf(v), nil, &errs).
CallNew ==
  /\ pc = "idle"
  /\ pc' = "running"
  /\ stack' = << Frame("typeToString", root, FALSE, <<>>) >>
  /\ UNCHANGED <<fields, root, result>>

\* One iteration of baseType's loop: t = t.Elem().
BaseTypeStep ==
  /\ pc = "running"
  /\ top.at = "baseType"
  /\ isPtr(top.t)
  /\ top.hops <= Cardinality(PtrTypes)
  /\ stack' = setTop([top EXCEPT !.t = Elem(top.t), !.hops = @ + 1])
  /\ UNCHANGED <<fields, root, pc, result>>

\* baseType returns (or t is nil and it is not called).
BaseTypeReturn ==
  /\ pc = "running"
  /\ top.at = "baseType"
  /\ ~isPtr(top.t)
  /\ stack' = setTop([top EXCEPT !.at = "body", !.todo = calls(fields, top)])
  /\ UNCHANGED <<fields, root, pc, result>>

\* The running call makes its next recursive call.
Call ==
  /\ pc = "running"
  /\ top.at = "body"
  /\ top.todo # <<>>
  /\ stack' = Append(setTop([top EXCEPT !.todo = Tail(@)]), Head(top.todo))
  /\ UNCHANGED <<fields, root, pc, result>>

\* A recursive call returns to its caller.
Return ==
  /\ pc = "running"
  /\ Len(stack) > 1
  /\ top.at = "body"
  /\ top.todo = <<>>
  /\ stack' = SubSeq(stack, 1, Len(stack) - 1)
  /\ UNCHANGED <<fields, root, pc, result>>

\* The outermost typeToString returns and New returns its result.
ReturnNew ==
  /\ pc = "running"
  /\ Len(stack) = 1
  /\ top.at = "body"
  /\ top.todo = <<>>
  /\ stack' = <<>>
  /\ pc' = "done"
  /\ result' = New(fields, root)
  /\ UNCHANGED <<fields, root>>

Next ==
  \/ CallNew
  \/ BaseTypeStep
  \/ BaseTypeReturn
  \/ Call
  \/ Return
  \/ ReturnNew

Spec == Init /\ [][Next]_vars

\* ================================================================== claims

Done == pc = "done"

hasErr(kind) == \E i \in 1..Len(result.Errs) : result.Errs[i].kind = kind

hasToken(tok) == \E i \in 1..Len(result.string) : result.string[i] = tok

\* The set of the elements of a sequence.
Range(seq) == { seq[i] : i \in 1..Len(seq) }

\* The struct types embedded in those of frontier at any level: the base types
\* of their anonymous fields that are structs.
RECURSIVE embeddedIn(_, _, _)
embeddedIn(F, frontier, seen) ==
  LET nxt == { baseType(f.Type) :
                 f \in { g \in UNION { Range(F[s]) : s \in frontier } :
                           g.Anonymous /\ Kind(baseType(g.Type)) = "struct" } } \ seen
  IN  IF nxt = {} THEN seen ELSE embeddedIn(F, nxt, seen \cup nxt)

Embedded(F, t) == embeddedIn(F, {t}, {})

\* t has, itself or in a struct embedded in it, a field of type *t.
containsSelfPtr(F, t) ==
  \E f \in UNION { Range(F[s]) : s \in {t} \cup Embedded(F, t) } :
    Kind(f.Type) = "ptr" /\ Elem(f.Type) = t

\* The named, exported, untagged fields of type *t that t declares.
selfPtrFields(F, t) ==
  { f \in Range(F[t]) :
      ~f.Anonymous /\ IsExported(f) /\ f.Tag = "" /\ Kind(f.Type) = "ptr" /\ Elem(f.Type) = t }

\* t is embedded in itself: cut, the embedded branch leaves no field behind.
embedsSelf(F, t) == t \in Embedded(F, t)

\* C1 (as claimed): New terminates on every finite type graph.  A call that
\* returns has, on every frame, an ancestry list of pairwise distinct types no
\* longer than the graph has types, and a baseType loop that has followed no
\* more pointers than the graph has pointer types; a loop past that count is
\* back at a type it has left and never exits.
C1_NewTerminates ==
  \A i \in 1..Len(stack) :
    /\ Len(stack[i].types) <= Cardinality(Types)
    /\ \A j, k \in 1..Len(stack[i].types) :
         stack[i].types[j] = stack[i].types[k] => j = k
    /\ stack[i].hops <= Cardinality(PtrTypes)

\* C2 (as claimed): a struct A that contains, directly or via embedding, a
\* field of type *A gets a LoopDetected diagnostic and "..." in its signature.
C2_LoopTokenAlways ==
  Done /\ root = "A" /\ containsSelfPtr(fields, "A")
    => hasErr("loop detected") /\ hasToken("...")

\* C2 (amended): a struct A without capabilities that declares a named,
\* exported, untagged field of type *A gets LoopDetected for A and "..." as
\* that field's value; one that is embedded in itself gets a LoopDetected
\* diagnostic (and no "..." is promised for the embedded branch).
C2_LoopDetected ==
  Done /\ root = "A" =>
    /\ \A f \in selfPtrFields(fields, "A") :
         /\ ErrLoopDetected("A") \in Range(result.Errs)
         /\ \E i \in 1..(Len(result.string) - 2) :
              SubSeq(result.string, i, i + 2) = <<f.Name, ":", "...">>
    /\ embedsSelf(fields, "A") => hasErr("loop detected")

C2_Witness ==
  Done /\ root = "A" /\ selfPtrFields(fields, "A") # {} /\ embedsSelf(fields, "A")

\* The orders a field list can be declared in.
Perms(fs) ==
  { [i \in 1..Len(fs) |-> fs[p[i]]] :
      p \in { q \in [1..Len(fs) -> 1..Len(fs)] :
                \A i, j \in 1..Len(fs) : q[i] = q[j] => i = j } }

Permuted(F) ==
  { Graph(a, b, c) : a \in Perms(F["A"]), b \in Perms(F["B"]), c \in Perms(F["C"]) }

strictlySorted(strs) ==
  \A i, j \in 1..Len(strs) : i < j => lessBytes(StrBytes(strs[i]), StrBytes(strs[j]))

\* C3: permuting the declared order of the fields of any struct leaves the
\* signature unchanged, and the keys of a struct are emitted in strictly
\* increasing byte order.
C3_OrderIndependent ==
  Done /\ root = "A" =>
    /\ \A g \in Permuted(fields) : New(g, root).string = result.string
    /\ \A t \in {"A", "B", "C"} :
         strictlySorted(sortedFields(structFields(fields, t).fields).keys)

C3_Witness ==
  /\ Done /\ root = "A"
  /\ LET fs == structFields(fields, "A").fields
         inserted == fieldMapLoop(fs, 1, [keys |-> <<>>, map |-> noFields]).keys
     IN  Len(inserted) >= 2 /\ ~strictlySorted(inserted)
  /\ \E t \in {"B", "C"} : Len(fields[t]) >= 2 /\ refers(fields["A"], t)

\* The buckets expandField fills for a struct.
Buckets(t) == expandAll(fields, t).result

\* The buckets as the name rules read them: a field with the ignore tag is
\* no occurrence of its name.
Counted(t) == [d \in 1..Len(Buckets(t)) |-> SelectSeq(Buckets(t)[d], LAMBDA f : f.Tag # "-")]

\* How often a name occurs at a depth, and the depths it occurs at.
occurs(levels, n, d) == Cardinality({ j \in 1..Len(levels[d + 1]) : levels[d + 1][j].Name = n })

depthsOf(levels, n) == { d \in 0..(Len(levels) - 1) : occurs(levels, n, d) > 0 }

Shallowest(ds) == CHOOSE d \in ds : \A e \in ds : d <= e

named(fs, n) == SelectSeq(fs, LAMBDA f : f.Name = n)

duplicates(errs, n) == SelectSeq(errs, LAMBDA e : e.kind = "duplicate fields" /\ e.name = n)

\* C4 (as claimed): a name at several depths, once at its shallowest depth:
\* exactly the shallowest occurrence is kept, every deeper one is excluded,
\* and a Duplicate diagnostic for the name is emitted only for a depth at
\* which it occurs more than once.
C4_ShallowestWins ==
  Done /\ root = "A" =>
    LET levels == Counted("A")
        sf == structFields(fields, "A")
    IN  \A n \in Names :
          LET ds == depthsOf(levels, n) IN
          Cardinality(ds) >= 2 /\ occurs(levels, n, Shallowest(ds)) = 1 =>
            /\ named(sf.fields, n) = named(levels[Shallowest(ds) + 1], n)
            /\ \A e \in Range(duplicates(sf.errs, n)) : occurs(levels, n, e.level) > 1

isCapabilityList(s, t) ==
  LET k == Cardinality(Implements(t)) IN
  /\ k > 0
  /\ Len(s) = 2 * k + 1
  /\ s[1] = "(" /\ s[Len(s)] = ")"
  /\ { s[2 * i] : i \in 1..k } = Implements(t)
  /\ \A i \in 1..(k - 1) : s[2 * i + 1] = "," /\ lessBytes(Bytes[s[2 * i]], Bytes[s[2 * i + 2]])

\* C6: a struct whose pointer implements a recognised interface is rendered
\* as the bracketed, sorted, comma-joined list of the interface names with no
\* diagnostic, whatever its fields are, and what New returns does not depend
\* on its fields.
C6_OpaqueLeaf ==
  Done =>
    \A alt \in FieldLists("Time") \cup {Candidates["Time"]} :
      LET g == [fields EXCEPT !["Time"] = alt]
          r == typeToString(g, "Time", <<>>)
      IN  /\ isCapabilityList(r.s, "Time")
          /\ r.errs = <<>>
          /\ New(g, root) = result

C6_Witness ==
  /\ Done /\ root = "A"
  /\ \E f \in Range(fields["A"]) : f.Type = "Time"
  /\ hasToken("(")
  /\ embedsSelf(fields, "Time")

\* The fields expansion has to record, with their depths: the non-anonymous
\* fields and the anonymous non-struct fields of the struct and of the structs
\* embedded in it, an embedded struct already on the branch not being entered
\* again.
RECURSIVE leavesOf(_, _, _, _)
leavesOf(F, fs, chain, depth) ==
  UNION { LET f == fs[i]
              t == baseType(f.Type)
          IN  IF Kind(t) # "struct" \/ ~f.Anonymous THEN { <<depth, f>> }
              ELSE IF t \in chain THEN {}
              ELSE leavesOf(F, F[t], chain \cup {t}, depth + 1) : i \in 1..Len(fs) }

\* C7 (as claimed): every non-anonymous field and every anonymous non-struct
\* field, of the struct or of a struct embedded in it, is in the bucket of its
\* embedding depth; none is left out.
C7_EveryLeafRecorded ==
  Done /\ root = "A" =>
    LET levels == Buckets("A") IN
    \A l \in leavesOf(fields, fields["A"], {}, 0) :
      l[1] < Len(levels) /\ l[2] \in Range(levels[l[1] + 1])

\* The graph without the fields that carry the ignore tag.
withoutIgnored(F) == [t \in DOMAIN F |-> SelectSeq(F[t], LAMBDA f : f.Tag # "-")]

duplicateErrs(errs) == SelectSeq(errs, LAMBDA e : e.kind = "duplicate fields")

\* C8 (as claimed): a field with the ignore tag is dropped before names are
\* counted: structFields returns the fields and the Duplicate diagnostics it
\* returns for the struct declared without the ignored fields.
C8_IgnoredNotCounted ==
  Done /\ root = "A" =>
    LET with == structFields(fields, "A")
        without == structFields(withoutIgnored(fields), "A")
    IN  /\ with.fields = without.fields
        /\ duplicateErrs(with.errs) = duplicateErrs(without.errs)

\* The types a type refers to: element, key and field types.
edges(F, t) ==
  IF t = NIL THEN {}
  ELSE CASE Kind(t) \in {"ptr", "slice", "array"} -> {Elem(t)}
         [] Kind(t) = "map" -> {Key(t), Elem(t)}
         [] Kind(t) = "struct" -> { f.Type : f \in Range(F[t]) }
         [] OTHER -> {}

RECURSIVE reachFrom(_, _, _)
reachFrom(F, frontier, seen) ==
  LET nxt == UNION { edges(F, t) : t \in frontier } \ seen
  IN  IF nxt = {} THEN seen ELSE reachFrom(F, nxt, seen \cup nxt)

\* The types reached from t in one reference or more.
reaches(F, t) == reachFrom(F, {t}, {})

onCycle(F, t) == t \in reaches(F, t)

acyclic(F, r) == \A t \in {r} \cup reaches(F, r) : ~onCycle(F, t)

\* C9: detection is per branch.  On an acyclic type graph New returns no
\* LoopDetected diagnostic and no "..." token, although sibling branches reach
\* the same type; and a LoopDetected diagnostic names a type that lies on a
\* reference cycle.
C9_PerBranch ==
  Done =>
    /\ acyclic(fields, root) => ~hasErr("loop detected") /\ ~hasToken("...")
    /\ \A e \in Range(result.Errs) : e.kind = "loop detected" => onCycle(fields, e.type)

C9_Witness ==
  /\ Done /\ root = "A" /\ acyclic(fields, root)
  /\ refers(fields["A"], "B") /\ refers(fields["A"], "C") /\ refers(fields["C"], "B")
  /\ fields["B"] # <<>>
  /\ Len(result.string) > 2

\* The nesting depth of braces before position i of the signature.
nesting(str, i) ==
  Cardinality({ j \in 1..(i - 1) : str[j] = "{ " }) - Cardinality({ j \in 1..(i - 1) : str[j] = " }" })

\* C10: the fields structFields returns have pairwise distinct names, so
\* fieldMap gets one key per surviving field and no entry is overwritten, and
\* every surviving named field is labelled exactly once in the signature of
\* its struct.
C10_DistinctNames ==
  Done /\ root = "A" =>
    \A t \in {"A", "B", "C"} :
      LET fs == structFields(fields, t).fields
          surviving == SelectSeq(fs, LAMBDA f : IsExported(f) /\ isConcrete(baseType(f.Type)))
          fm == fieldMapLoop(fs, 1, [keys |-> <<>>, map |-> noFields])
      IN  /\ \A i, j \in 1..Len(fs) : fs[i].Name = fs[j].Name => i = j
          /\ Len(fm.keys) = Len(surviving)
          /\ \A i \in 1..Len(surviving) : fm.map[keyOf(surviving[i])] = surviving[i]
          /\ t = "A" =>
               \A i \in 1..Len(surviving) :
                 ~surviving[i].Anonymous =>
                   Cardinality({ j \in 1..(Len(result.string) - 1) :
                                   /\ result.string[j] = surviving[i].Name
                                   /\ result.string[j + 1] = ":"
                                   /\ nesting(result.string, j) = 1 }) = 1

C10_Witness ==
  /\ Done /\ root = "A"
  /\ \E n \in Names : Cardinality(depthsOf(Buckets("A"), n)) >= 2
  /\ \E n \in Names : occurs(Buckets("A"), n, 1) = 2
  /\ Len(sortedFields(structFields(fields, "A").fields).keys) >= 1
====
